---- MODULE Spec2Model ----
(***************************************************************************)
(* State-machine model of the crawler service: its dual store (storage.py: *)
(* PostgreSQL table crawled_pages + Qdrant collection), its LLM provider   *)
(* router (llm_client.py), the schema mapper (schema_mapper.py), the RAG   *)
(* pipeline (rag.py) and the ingest request (main.py).                     *)
(*                                                                         *)
(*   Spec         the Store: save_crawled_data calls issued one at a time  *)
(*                by the service's process instances                       *)
(*   SpecConcurrent  the Store with save_crawled_data calls overlapping    *)
(*   SpecRouter   the LLMClient: __init__ and chat_completion              *)
(*   SpecExtract  the SchemaMapper's extract_with_llm over the LLMClient   *)
(*   SpecRag      the RAGPipeline's query and compare_products over stores *)
(*                filled by earlier crawls                                 *)
(*   SpecClassify the SchemaMapper's classify_industry                     *)
(*   SpecIngest   the request handler crawl_url over stores filled by      *)
(*                earlier crawls                                           *)
(***************************************************************************)
EXTENDS Integers, Sequences, FiniteSets, TLC

VARIABLES
    rows,         \* table crawled_pages: a set of row records
    points,       \* the Qdrant collection: a set of points [id, vector, payload]
    now,          \* the database clock (CURRENT_TIMESTAMP)
    nextUuid,     \* number of the next uuid.uuid4() value (fresh on every call)
    hashSeed,     \* per process: the seed of Python's str hash (PYTHONHASHSEED)
    pc,           \* per process: position inside save_crawled_data
    call,         \* per process: arguments, page_id and injected fault of the call in flight
    lastOutcome,  \* history: per URL, how the latest finished save of it ended
    savedUrls,    \* history: the URLs whose canonical write has committed at least once
    last,         \* history: the latest finished call (arguments, result, row after it)
    openai_client,     \* LLMClient: TRUE when the OpenAI client object exists
    groq_client,       \* LLMClient: TRUE when the Groq client object exists
    provider,          \* LLMClient: the configured preference (auto, openai, groq)
    current_provider,  \* LLMClient: what get_provider() reads
    reply,             \* outcome of the latest chat_completion: text of a backend, or an exception
    attempts,          \* the backends the latest chat_completion invoked, in order
    aAlwaysFails,      \* history: OpenAI was failing during every call so far
    bAlwaysOk,         \* history: Groq was answering during every call so far
    completions,       \* history: number of chat_completion calls so far
    fellBack,          \* history: some call so far failed on OpenAI and went on to Groq
    schema_type,       \* extract_with_llm: the Schema.org type requested by the latest call
    result_text,       \* extract_with_llm: the text the backend returned to the latest call
    extracted_data,    \* extract_with_llm: how the latest call ended, and the mapping it returned
    max_context_items, \* RAGPipeline: the number of hits retrieve_context asks for
    rag_call,          \* RAGPipeline: the latest operation, its arguments and injected read fault
    retrieved_items,   \* RAGPipeline: what retrieve_context returned to the latest operation
    rag_result,        \* RAGPipeline: how the latest operation ended, and the mapping it returned
    similarity,        \* classify_industry: per industry, the cosine similarity of the content
    best_match,        \* classify_industry: the label the latest call returned
    crawl_request,     \* crawl_url: the latest request and the faults injected into it
    steps,             \* crawl_url: the pipeline stages the latest request went through
    crawl_response     \* crawl_url: the response to the latest request

storeVars == <<rows, points, now, nextUuid, hashSeed, pc, call, lastOutcome, savedUrls, last>>
routerVars == <<openai_client, groq_client, provider, current_provider, reply, attempts,
                aAlwaysFails, bAlwaysOk, completions, fellBack>>
extractVars == <<schema_type, result_text, extracted_data>>
ragVars == <<max_context_items, rag_call, retrieved_items, rag_result>>
classifyVars == <<similarity, best_match>>
ingestVars == <<crawl_request, steps, crawl_response>>
vars == <<storeVars, routerVars, extractVars, ragVars, classifyVars, ingestVars>>

\* what the operations of one component leave alone
notStore == <<routerVars, extractVars, ragVars, classifyVars, ingestVars>>
notRouter == <<storeVars, extractVars, ragVars, classifyVars, ingestVars>>
notExtract == <<storeVars, ragVars, classifyVars, ingestVars>>
notRag == <<storeVars, extractVars, classifyVars, ingestVars>>
notClassify == <<storeVars, routerVars, extractVars, ragVars, ingestVars>>
notIngest == <<ragVars>>

(***************************************************************************)
(* Bounds of the model.                                                    *)
(***************************************************************************)
MaxCalls == 3      \* save calls per behaviour
MaxClock == 2      \* last value of the database clock
HashBits == 4      \* width of the str hash (64 in CPython, scaled down)
PrefixLen == 2     \* characters of text_content embedded (1000 in the code, scaled down)
MaxCompletions == 3  \* chat_completion calls per behaviour
MaxDocs == 6         \* pages in the stores when the RAG pipeline starts
MaxRagCalls == 1     \* query and compare_products calls per behaviour
MaxSim == 2          \* cosine similarities range over -MaxSim..MaxSim (scaled from -1..1)
MaxIngests == 1      \* crawl_url requests per behaviour
MaxConcurrent == 2   \* save calls per behaviour when calls overlap

Procs == {"p1", "p2"}
Seeds == {0, 1}
URLs == {"u1", "u2"}
None == "None"

Min(a, b) == IF a <= b THEN a ELSE b

RECURSIVE Pow2(_)
Pow2(n) == IF n = 0 THEN 1 ELSE 2 * Pow2(n - 1)

(***************************************************************************)
(* Arguments of save_crawled_data other than url.  extracted_data and      *)
(* metadata are JSON objects (string keys); the table keeps them as JSONB. *)
(***************************************************************************)
Inputs ==
    { [title |-> "Card A", description |-> "a card", industry |-> "banking",
       schema_type |-> "FinancialProduct",
       extracted_data |-> ("@type" :> "FinancialProduct" @@ "annualFee" :> "99"),
       metadata |-> ("title" :> "Card A" @@ "keywords" :> "card"),
       text_content |-> <<"c", "r", "e">>],
      [title |-> "Shop B", description |-> "a shop", industry |-> "ecommerce",
       schema_type |-> "Product",
       extracted_data |-> ("@type" :> "Product" @@ "price" :> "5"),
       metadata |-> ("title" :> "Shop B"),
       text_content |-> <<"c", "r", "x">>] }

Faults == {"none", "pg", "qd"}

(***************************************************************************)
(* hash(url) of CPython: a keyed hash of the string, the key drawn per     *)
(* process at start-up; a signed HashBits-bit value.                       *)
(***************************************************************************)
UrlCode(u) == IF u = "u1" THEN 2 ELSE 5

PyHash(seed, u) ==
    LET raw == (UrlCode(u) * UrlCode(u) * (seed + 1) + 5 * seed + UrlCode(u)) % Pow2(HashBits)
    IN  IF raw >= Pow2(HashBits - 1) THEN raw - Pow2(HashBits) ELSE raw

\* id=hash(url) % (2**63): the sign bit of the hash is dropped
PointId(seed, u) == PyHash(seed, u) % Pow2(HashBits - 1)

\* self.embedding_model.encode(text_content[:1000])
Encode(text) == <<"emb", text>>
Embedding(text) == Encode(SubSeq(text, 1, Min(Len(text), PrefixLen)))

(***************************************************************************)
(* The two stores.                                                         *)
(***************************************************************************)
RowOf(rs, u) == CHOOSE r \in rs : r.url = u

HasRow(rs, u) == \E r \in rs : r.url = u

NewRow(pid, u, a, t) ==
    [id |-> pid, url |-> u, title |-> a.title,
     description |-> a.description, industry |-> a.industry,
     schema_type |-> a.schema_type,
     extracted_data |-> a.extracted_data,
     metadata |-> a.metadata,
     created_at |-> t, updated_at |-> t]

\* faulty variant: a plain INSERT, no conflict target
PgInsertAlways(rs, pid, u, a, t) == rs \cup {NewRow(pid, u, a, t)}

\* faulty variant: ON CONFLICT merges extracted_data key by key (old keys survive)
PgUpsertMerge(rs, pid, u, a, t) ==
    IF HasRow(rs, u)
    THEN { IF r.url = u
           THEN [NewRow(r.id, u, a, t) EXCEPT
                     !.created_at = r.created_at,
                     !.extracted_data =
                         [k \in DOMAIN a.extracted_data \cup DOMAIN r.extracted_data |->
                             IF k \in DOMAIN a.extracted_data
                             THEN a.extracted_data[k] ELSE r.extracted_data[k]]]
           ELSE r : r \in rs }
    ELSE rs \cup {NewRow(pid, u, a, t)}

\* faulty variant: the conflicting row is replaced whole, id and created_at included
PgUpsertNewId(rs, pid, u, a, t) == { r \in rs : r.url # u } \cup {NewRow(pid, u, a, t)}

\* INSERT ... ON CONFLICT (url) DO UPDATE SET ... at transaction time t
PgUpsert(rs, pid, u, a, t) ==
    IF HasRow(rs, u)
    THEN { IF r.url = u
           THEN [r EXCEPT !.title = a.title,
                          !.description = a.description,
                          !.industry = a.industry,
                          !.schema_type = a.schema_type,
                          !.extracted_data = a.extracted_data,
                          !.metadata = a.metadata,
                          !.updated_at = t]
           ELSE r : r \in rs }
    ELSE rs \cup {NewRow(pid, u, a, t)}

\* faulty variant: the failed transaction leaves its write behind
PgPartialCommit(rs, pid, u, a, t) == { r \in rs : r.url # u } \cup {NewRow(pid, u, a, t)}

\* except Exception: the transaction was never committed
PgRollback(rs, pid, u, a, t) == rs

\* payload = {...}; PointStruct(id=hash(url) % (2**63), vector=embedding, payload=payload)
MakePoint(seed, pid, u, a) ==
    [id |-> PointId(seed, u),
     vector |-> Embedding(a.text_content),
     payload |-> [url |-> u, title |-> a.title, industry |-> a.industry,
                  schema_type |-> a.schema_type, page_id |-> pid]]

\* qdrant_client.upsert: a point replaces the point of the same id
QdUpsert(ps, pt) == { q \in ps : q.id # pt.id } \cup {pt}

\* except Exception as e: print(...); return None
PgErrorResult(pid) == [status |-> "returned", page_id |-> None]

\* return page_id
SaveResult(pid) == [status |-> "returned", page_id |-> pid]

\* faulty variant: the Qdrant exception escapes save_crawled_data
QdErrorRaises(pid) == [status |-> "raised", page_id |-> None]

\* except Exception as e: print(...), then the same return page_id
QdErrorResult(pid) == SaveResult(pid)

(***************************************************************************)
(* save_crawled_data, one call at a time.                                  *)
(***************************************************************************)
NoCall == [url |-> None]
NoRow == [id |-> None, url |-> None]

StoreInit ==
    /\ rows = {}
    /\ points = {}
    /\ now = 0
    /\ nextUuid = 1
    /\ hashSeed \in [Procs -> Seeds]
    /\ pc = [p \in Procs |-> "idle"]
    /\ call = [p \in Procs |-> NoCall]
    /\ lastOutcome = [u \in URLs |-> "never"]
    /\ savedUrls = {}
    /\ last = NoCall

\* str(uuid.uuid4())
Uuid(n) == ToString(n)

\* page_id = str(uuid.uuid4())
save_crawled_data(p, u, a, f) ==
    /\ \A q \in Procs : pc[q] = "idle"
    /\ nextUuid <= MaxCalls
    /\ call' = [call EXCEPT ![p] = [url |-> u, args |-> a, page_id |-> Uuid(nextUuid), fault |-> f]]
    /\ nextUuid' = nextUuid + 1
    /\ pc' = [pc EXCEPT ![p] = "pg"]
    /\ UNCHANGED <<rows, points, now, hashSeed, lastOutcome, savedUrls, last>>
    /\ UNCHANGED notStore

Finish(p, c, result, outcome, rs) ==
    /\ pc' = [pc EXCEPT ![p] = "idle"]
    /\ call' = [call EXCEPT ![p] = NoCall]
    /\ lastOutcome' = [lastOutcome EXCEPT ![c.url] = outcome]
    /\ last' = [url |-> c.url, args |-> c.args, result |-> result, outcome |-> outcome,
                row |-> IF HasRow(rs, c.url) THEN RowOf(rs, c.url) ELSE NoRow]

\* the PostgreSQL try block
PgWrite(p) ==
    /\ pc[p] = "pg"
    /\ LET c == call[p] IN
       IF c.fault = "pg"
       THEN /\ rows' = PgRollback(rows, c.page_id, c.url, c.args, now)
            /\ Finish(p, c, PgErrorResult(c.page_id), "pg_failed", rows')
            /\ UNCHANGED <<points, now, nextUuid, hashSeed, savedUrls>>
       ELSE \E t \in now .. Min(now + 1, MaxClock) :
            /\ rows' = PgUpsert(rows, c.page_id, c.url, c.args, t)
            /\ now' = t
            /\ pc' = [pc EXCEPT ![p] = "qd"]
            /\ savedUrls' = savedUrls \cup {c.url}
            /\ UNCHANGED <<points, nextUuid, hashSeed, call, lastOutcome, last>>
    /\ UNCHANGED notStore

\* the Qdrant try block and the final return
QdWrite(p) ==
    /\ pc[p] = "qd"
    /\ LET c == call[p] IN
       IF c.fault = "qd"
       THEN /\ points' = points
            /\ Finish(p, c, QdErrorResult(c.page_id), "qd_failed", rows)
            /\ UNCHANGED <<rows, now, nextUuid, hashSeed, savedUrls>>
       ELSE /\ points' = QdUpsert(points, MakePoint(hashSeed[p], c.page_id, c.url, c.args))
            /\ Finish(p, c, SaveResult(c.page_id), "both", rows)
            /\ UNCHANGED <<rows, now, nextUuid, hashSeed, savedUrls>>
    /\ UNCHANGED notStore

Next ==
    \/ \E p \in Procs, u \in URLs, a \in Inputs, f \in Faults : save_crawled_data(p, u, a, f)
    \/ \E p \in Procs : PgWrite(p)
    \/ \E p \in Procs : QdWrite(p)

(***************************************************************************)
(* save_crawled_data called by several process instances at once: a call   *)
(* starts whenever its own process is idle, and the PostgreSQL and Qdrant  *)
(* blocks of different calls interleave.  Both stores answer every write.  *)
(***************************************************************************)
concurrent_save(p, u, a) ==
    /\ pc[p] = "idle"
    /\ nextUuid <= MaxConcurrent
    /\ call' = [call EXCEPT ![p] = [url |-> u, args |-> a, page_id |-> Uuid(nextUuid),
                                   fault |-> "none"]]
    /\ nextUuid' = nextUuid + 1
    /\ pc' = [pc EXCEPT ![p] = "pg"]
    /\ UNCHANGED <<rows, points, now, hashSeed, lastOutcome, savedUrls, last>>
    /\ UNCHANGED notStore

NextConcurrent ==
    \/ \E p \in Procs, u \in URLs, a \in Inputs : concurrent_save(p, u, a)
    \/ \E p \in Procs : PgWrite(p)
    \/ \E p \in Procs : QdWrite(p)

(***************************************************************************)
(* Properties of the Store (checked under Spec).                           *)
(***************************************************************************)
RowsFor(rs, u) == { r \in rs : r.url = u }
PointsFor(ps, u) == { q \in ps : q.payload.url = u }

NonTimestamp(r) ==
    IF r.url = None THEN NoRow
    ELSE [id |-> r.id, url |-> r.url, title |-> r.title, description |-> r.description,
          industry |-> r.industry, schema_type |-> r.schema_type,
          extracted_data |-> r.extracted_data, metadata |-> r.metadata]

\* some process is leaving the PostgreSQL block with its write committed
PgCommitted(p) == pc[p] = "pg" /\ pc'[p] = "qd"

\* C1: for every URL whose latest save succeeded in both stores, every
\* VectorEntry of that URL carries the id of the URL's Page as page_id.
C1_PageIdMatchesPage ==
    \A u \in URLs :
        lastOutcome[u] = "both" =>
            /\ HasRow(rows, u)
            /\ \A q \in PointsFor(points, u) : q.payload.page_id = RowOf(rows, u).id

\* C2: a save that repeats the arguments of the save before it returns the
\* same page_id and leaves the Page's non-timestamp fields as they were.
C2_SaveIdempotent ==
    [][\A p \in Procs :
          (/\ pc[p] = "qd" /\ pc'[p] = "idle"
           /\ last # NoCall
           /\ last.outcome \in {"both", "qd_failed"}
           /\ last.url = call[p].url
           /\ last.args = call[p].args)
          => /\ last'.result.page_id = last.result.page_id
             /\ NonTimestamp(last'.row) = NonTimestamp(last.row)]_vars

\* C3: the table holds exactly one Page for each URL that has had a successful
\* canonical write and none for any other URL.
C3_OnePagePerUrl ==
    \A u \in URLs : Cardinality(RowsFor(rows, u)) = (IF u \in savedUrls THEN 1 ELSE 0)

C3_Witness ==
    \E u \in URLs :
        /\ last # NoCall /\ last.url = u /\ last.outcome = "both"
        /\ last.row.id # last.result.page_id
        /\ Cardinality(RowsFor(rows, u)) = 1

\* C4: a canonical write to an already stored URL leaves the row with exactly
\* the new attributes (no old key survives unless the new attributes have it),
\* the new title, description, industry, record_type and raw_metadata, and an
\* updated_at not earlier than before.
C4_UpsertReplaces ==
    [][\A p \in Procs :
          (PgCommitted(p) /\ HasRow(rows, call[p].url))
          => LET u == call[p].url
                 a == call[p].args
                 old == RowOf(rows, u)
                 new == RowOf(rows', u)
             IN  /\ HasRow(rows', u)
                 /\ new.extracted_data = a.extracted_data
                 /\ \A k \in DOMAIN old.extracted_data :
                        k \in DOMAIN new.extracted_data => k \in DOMAIN a.extracted_data
                 /\ new.title = a.title
                 /\ new.description = a.description
                 /\ new.industry = a.industry
                 /\ new.schema_type = a.schema_type
                 /\ new.metadata = a.metadata
                 /\ new.updated_at >= old.updated_at]_vars

C4_Witness ==
    \E p \in Procs :
        /\ pc[p] = "qd"
        /\ HasRow(rows, call[p].url)
        /\ LET r == RowOf(rows, call[p].url)
           IN  /\ r.id # call[p].page_id
               /\ r.extracted_data = call[p].args.extracted_data
               /\ "annualFee" \notin DOMAIN r.extracted_data
               /\ r.title = "Shop B"
               /\ r.updated_at > r.created_at

\* C5: a Page gets its id from the save that first stores its URL, and no
\* later step changes the stored id or created_at.
C5_IdNeverChanges ==
    [][\A u \in URLs :
          /\ HasRow(rows, u) =>
                /\ HasRow(rows', u)
                /\ RowOf(rows', u).id = RowOf(rows, u).id
                /\ RowOf(rows', u).created_at = RowOf(rows, u).created_at
          /\ (~HasRow(rows, u) /\ HasRow(rows', u)) =>
                \E p \in Procs : /\ PgCommitted(p)
                                 /\ call[p].url = u
                                 /\ RowOf(rows', u).id = call[p].page_id]_vars

C5_Witness ==
    \E u \in URLs :
        /\ last # NoCall /\ last.url = u /\ last.outcome \in {"both", "qd_failed"}
        /\ last.row.id # last.result.page_id
        /\ last.row.created_at < last.row.updated_at

\* C6: when the vector write of a save fails after its canonical write
\* succeeded, save returns its page_id without raising and the Page written
\* by the call stays in the table.
C6_VectorFailureSwallowed ==
    [][\A p \in Procs :
          (pc[p] = "qd" /\ call[p].fault = "qd" /\ pc'[p] # "qd")
          => /\ last'.result.status = "returned"
             /\ last'.result.page_id = call[p].page_id
             /\ last'.result.page_id # None
             /\ rows' = rows
             /\ points' = points
             /\ HasRow(rows', call[p].url)
             /\ LET r == RowOf(rows', call[p].url)
                IN  /\ r.title = call[p].args.title
                    /\ r.extracted_data = call[p].args.extracted_data]_vars

C6_Witness ==
    /\ last # NoCall
    /\ last.outcome = "qd_failed"
    /\ last.result.page_id # None
    /\ HasRow(rows, last.url)
    /\ PointsFor(points, last.url) = {}

\* C7: when the canonical write of a save fails, save returns no page_id,
\* goes to no vector write, and leaves table and vector index as they were.
C7_CanonicalFailureAborts ==
    [][\A p \in Procs :
          (pc[p] = "pg" /\ call[p].fault = "pg" /\ pc'[p] # "pg")
          => /\ pc'[p] = "idle"
             /\ last'.result.page_id = None
             /\ last'.outcome = "pg_failed"
             /\ rows' = rows
             /\ points' = points]_vars

C7_Witness ==
    /\ last # NoCall
    /\ last.outcome = "pg_failed"
    /\ last.result.page_id = None
    /\ rows # {}
    /\ points # {}
    /\ \A p \in Procs : pc[p] = "idle"

\* C8: the vector index never holds more than one VectorEntry for one URL,
\* whichever process instances saved it.
C8_OneEntryPerUrl ==
    \A u \in URLs : Cardinality(PointsFor(points, u)) <= 1

(***************************************************************************)
(* LLMClient (llm_client.py).  OpenAI is backend_A, Groq is backend_B.     *)
(***************************************************************************)
Providers == {"auto", "openai", "groq"}

\* faulty variant: self.current_provider is set from the preference, client or no client
InitialProviderUnchecked(oc, gc, prov) ==
    IF prov = "groq" THEN "groq" ELSE "openai"

\* __init__: current_provider once both clients and the preference are processed
InitialProvider(oc, gc, prov) ==
    LET afterGroq == IF gc THEN "groq" ELSE None
    IN  IF prov = "groq" /\ gc THEN "groq"
        ELSE IF prov = "openai" /\ oc THEN "openai"
        ELSE IF prov = "auto"
             THEN (IF oc THEN "openai" ELSE IF gc THEN "groq" ELSE afterGroq)
        ELSE afterGroq

\* _groq_completion: the Groq call, its failure wrapped in an exception
groq_completion(gc, cur, tried, bOk) ==
    IF ~gc
    THEN [current |-> cur, attempts |-> tried,
          reply |-> [status |-> "raised", by |-> None, error |-> "Groq client not initialized"]]
    ELSE [current |-> cur, attempts |-> Append(tried, "groq"),
          reply |-> IF bOk THEN [status |-> "text", by |-> "groq", error |-> None]
                    ELSE [status |-> "raised", by |-> None, error |-> "Groq completion error"]]

\* faulty variant: the fallback tries OpenAI once more before Groq
OpenAIFallbackRetries(gc, cur, tried, bOk) ==
    IF gc
    THEN groq_completion(gc, "groq", Append(tried, "openai"), bOk)
    ELSE [current |-> cur, attempts |-> Append(tried, "openai"),
          reply |-> [status |-> "raised", by |-> None, error |-> "Both OpenAI and Groq failed"]]

\* faulty variant: the fallback forgets self.current_provider = "groq"
OpenAIFallbackKeepsCurrent(gc, cur, tried, bOk) ==
    IF gc
    THEN groq_completion(gc, cur, tried, bOk)
    ELSE [current |-> cur, attempts |-> tried,
          reply |-> [status |-> "raised", by |-> None, error |-> "Both OpenAI and Groq failed"]]

\* except Exception as e (the OpenAI call raised): fall back to Groq
OpenAIFallback(gc, cur, tried, bOk) ==
    IF gc
    THEN groq_completion(gc, "groq", tried, bOk)
    ELSE [current |-> cur, attempts |-> tried,
          reply |-> [status |-> "raised", by |-> None, error |-> "Both OpenAI and Groq failed"]]

\* chat_completion: route the call, fall back on failure
chat_completion(oc, gc, prov, cur, aOk, bOk) ==
    IF cur = "openai" \/ (prov = "auto" /\ oc)
    THEN IF aOk
         THEN [current |-> cur, attempts |-> <<"openai">>,
               reply |-> [status |-> "text", by |-> "openai", error |-> None]]
         ELSE OpenAIFallback(gc, cur, <<"openai">>, bOk)
    ELSE IF cur = "groq" \/ gc
    THEN groq_completion(gc, cur, <<>>, bOk)
    ELSE [current |-> cur, attempts |-> <<>>,
          reply |-> [status |-> "raised", by |-> None, error |-> "No LLM provider available"]]

\* get_provider: self.current_provider or "none"
get_provider(cur) == IF cur = None THEN "none" ELSE cur

NoReply == [status |-> "none", by |-> None, error |-> None]

RouterInit ==
    /\ openai_client \in BOOLEAN
    /\ groq_client \in BOOLEAN
    /\ provider \in Providers
    /\ current_provider = InitialProvider(openai_client, groq_client, provider)
    /\ reply = NoReply
    /\ attempts = <<>>
    /\ aAlwaysFails = TRUE
    /\ bAlwaysOk = TRUE
    /\ completions = 0
    /\ fellBack = FALSE

\* one chat_completion call; aOk, bOk: whether each backend answers if invoked now
LLMCall(aOk, bOk) ==
    LET r == chat_completion(openai_client, groq_client, provider, current_provider, aOk, bOk)
    IN  /\ completions < MaxCompletions
        /\ completions' = completions + 1
        /\ current_provider' = r.current
        /\ reply' = r.reply
        /\ attempts' = r.attempts
        /\ aAlwaysFails' = (aAlwaysFails /\ ~aOk)
        /\ bAlwaysOk' = (bAlwaysOk /\ bOk)
        /\ fellBack' = (fellBack \/ r.attempts = <<"openai", "groq">>)
        /\ UNCHANGED <<openai_client, groq_client, provider>>

\* a chat_completion call issued on the client directly
Complete(aOk, bOk) ==
    /\ LLMCall(aOk, bOk)
    /\ UNCHANGED notRouter

NextRouter == \E aOk \in BOOLEAN, bOk \in BOOLEAN : Complete(aOk, bOk)

(***************************************************************************)
(* SchemaMapper.extract_with_llm (schema_mapper.py).  The text a backend   *)
(* returns is a sequence of lexical pieces: markdown fences, whitespace,   *)
(* JSON values and prose.                                                  *)
(***************************************************************************)
SchemaContext == "https://schema.org"
RecordTypes == {"Product", "FinancialProduct"}

EmptyObject == [k \in {} |-> ""]

Piece(kind, obj) == [kind |-> kind, obj |-> obj]

Fence == Piece("fence", EmptyObject)              \* ```
FenceJson == Piece("fence_json", EmptyObject)     \* ```json
Space == Piece("space", EmptyObject)              \* whitespace
Prose == Piece("prose", EmptyObject)              \* words that are not JSON
JsonArray == Piece("array", EmptyObject)          \* a JSON list
JsonNumber == Piece("number", EmptyObject)        \* a JSON scalar
JsonObject == Piece("object", "name" :> "Card")
JsonTypedObject ==
    Piece("object", "@type" :> "Thing" @@ "@context" :> "http://example.org"
                    @@ "name" :> "Card")

\* the texts a backend answers with (chat_completion has stripped them)
Replies ==
    { <<JsonObject>>,
      <<JsonTypedObject>>,
      <<FenceJson, Space, JsonTypedObject, Space, Fence>>,
      <<Fence, Space, JsonObject, Space, Fence>>,
      <<FenceJson, JsonObject, Fence>>,
      <<FenceJson, Space, JsonArray, Space, Fence>>,
      <<JsonArray>>,
      <<JsonNumber>>,
      <<Prose>>,
      <<Prose, Space, JsonObject>>,
      <<JsonObject, Space, JsonObject>>,
      <<>> }

RECURSIVE ReSub(_, _, _)
\* re.sub(fence + r'\s*', '', text): drop each fence and the whitespace after it
ReSub(text, fence, afterFence) ==
    IF text = <<>> THEN <<>>
    ELSE IF Head(text).kind = fence THEN ReSub(Tail(text), fence, TRUE)
    ELSE IF afterFence /\ Head(text).kind = "space" THEN ReSub(Tail(text), fence, TRUE)
    ELSE <<Head(text)>> \o ReSub(Tail(text), fence, FALSE)

RECURSIVE LStrip(_)
LStrip(text) ==
    IF text # <<>> /\ Head(text).kind = "space" THEN LStrip(Tail(text)) ELSE text

RECURSIVE RStrip(_)
RStrip(text) ==
    IF text # <<>> /\ text[Len(text)].kind = "space"
    THEN RStrip(SubSeq(text, 1, Len(text) - 1)) ELSE text

\* str.strip()
Strip(text) == RStrip(LStrip(text))

\* the two re.sub calls and the strip
StripFences(text) == Strip(ReSub(ReSub(text, "fence_json", FALSE), "fence", FALSE))

\* json.loads: one JSON value and nothing else, or JSONDecodeError
JsonLoads(text) ==
    IF Len(text) = 1 /\ text[1].kind \in {"object", "array", "number"}
    THEN [ok |-> TRUE, kind |-> text[1].kind, obj |-> text[1].obj]
    ELSE [ok |-> FALSE, kind |-> "JSONDecodeError", obj |-> EmptyObject]

ErrorEnvelope(st, msg) ==
    "@type" :> st @@ "@context" :> SchemaContext @@ "error" :> msg

\* the two except clauses: return the error envelope
ExtractError(st, msg) ==
    [status |-> "returned", value |-> ErrorEnvelope(st, msg)]

\* faulty variant: the backend's own @type and @context are kept
AddSchemaContextKeepsKeys(obj, st) ==
    obj @@ "@type" :> st @@ "@context" :> SchemaContext

\* extracted_data["@type"] = schema_type; extracted_data["@context"] = ...
AddSchemaContext(obj, st) ==
    "@type" :> st @@ "@context" :> SchemaContext @@ obj

\* the body of the try block once chat_completion has ended with r
ExtractResult(st, r, text) ==
    IF r.status = "raised" THEN ExtractError(st, r.error)
    ELSE LET parsed == JsonLoads(StripFences(text))
         IN  IF ~parsed.ok THEN ExtractError(st, "Failed to parse LLM response")
             ELSE IF parsed.kind # "object"
             THEN ExtractError(st, "object does not support item assignment")
             ELSE [status |-> "returned", value |-> AddSchemaContext(parsed.obj, st)]

NoExtract == [status |-> "none", value |-> EmptyObject]

ExtractIdle ==
    /\ schema_type = None
    /\ result_text = <<>>
    /\ extracted_data = NoExtract

\* one extract_with_llm call; text: what the backend that answers writes
extract_with_llm(st, text, aOk, bOk) ==
    /\ LLMCall(aOk, bOk)
    /\ schema_type' = st
    /\ result_text' = IF reply'.status = "text" THEN text ELSE <<>>
    /\ extracted_data' = ExtractResult(st, reply', text)
    /\ UNCHANGED notExtract

NextExtract ==
    \E st \in RecordTypes, text \in Replies,
       aOk \in BOOLEAN, bOk \in BOOLEAN :
        extract_with_llm(st, text, aOk, bOk)

(***************************************************************************)
(* StorageManager.search_similar and the RAGPipeline (rag.py).  The stores *)
(* hold the pages of earlier crawls; the pipeline only reads them.         *)
(***************************************************************************)
DefaultContextItems == 5     \* max_context_items: int = 5
CompareLimit == 5            \* retrieved_items[:5]

Letters == <<"a", "b", "c", "d", "e", "f", "g", "h">>
DocUrls == <<"d1", "d2", "d3", "d4", "d5", "d6", "d7", "d8">>
MarkedTitle == "[Document 0] memo"
DocTitles == <<"T1", MarkedTitle, "T3", "T4", "T5", "T6", "T7", "T8">>

Code(c) == CHOOSE i \in 1..Len(Letters) : Letters[i] = c

\* the arguments with which page d was saved
Doc(d) ==
    [title |-> DocTitles[d], description |-> "page",
     industry |-> IF d = 1 THEN "insurance"
                  ELSE IF d % 2 = 1 THEN "banking" ELSE "ecommerce",
     schema_type |-> IF d % 2 = 1 THEN "FinancialProduct" ELSE "Product",
     extracted_data |-> IF d % 3 = 0 THEN EmptyObject
                        ELSE ("@type" :> "Product" @@ "price" :> "5"),
     metadata |-> IF d % 4 = 0 THEN EmptyObject ELSE ("title" :> DocTitles[d]),
     text_content |-> <<Letters[d], "x", "y">>]

DocRow(d) == NewRow(Uuid(d), DocUrls[d], Doc(d), 0)

DocPoint(d) == [MakePoint(0, Uuid(d), DocUrls[d], Doc(d)) EXCEPT !.id = d]

Queries == {<<"a", "x">>, <<"f", "x">>}
IndustryFilters == {None, "banking", "insurance"}
ReadFaults == {"none", "qd", "pg"}

AbsDiff(a, b) == IF a >= b THEN a - b ELSE b - a

\* the score Qdrant gives a point for a query vector (cosine similarity)
Score(qv, dv) ==
    IF qv[2] = <<>> \/ dv[2] = <<>> THEN 0
    ELSE 100 - AbsDiff(3 * Code(qv[2][1]), 3 * Code(dv[2][1]) + 1)

RECURSIVE QueryPoints(_, _, _)
\* qdrant_client.query_points(query=..., limit=...): best hits first
QueryPoints(ps, qv, limit) ==
    IF ps = {} \/ limit = 0 THEN <<>>
    ELSE LET best == CHOOSE x \in ps : \A y \in ps : Score(qv, x.vector) >= Score(qv, y.vector)
         IN  <<[payload |-> best.payload, score |-> Score(qv, best.vector)]>>
             \o QueryPoints(ps \ {best}, qv, limit - 1)

\* get_by_url: the row as a dict, or None (also when the query fails)
get_by_url(rs, u, fault) ==
    IF fault = "pg" \/ ~HasRow(rs, u) THEN NoRow ELSE RowOf(rs, u)

\* each get_by_url opens its own connection: "pg" fails every lookup of the
\* search, "pg_once" only the next one, "pg_2nd" only the one after the next
LookupFault(fault) == IF fault = "pg_once" THEN "pg" ELSE fault
LaterFault(fault) ==
    IF fault = "pg_once" THEN "none"
    ELSE IF fault = "pg_2nd" THEN "pg_once" ELSE fault

RECURSIVE SimilarPagesOrNothing(_, _, _)
\* faulty variant: one hit without a page empties the whole result
SimilarPagesOrNothing(hits, rs, fault) ==
    IF hits = <<>> THEN <<>>
    ELSE LET page_data == get_by_url(rs, Head(hits).payload.url, LookupFault(fault))
             others == SimilarPagesOrNothing(Tail(hits), rs, LaterFault(fault))
         IN  IF page_data = NoRow \/ Len(others) < Len(hits) - 1 THEN <<>>
             ELSE <<[page |-> page_data, similarity_score |-> Head(hits).score]>> \o others

RECURSIVE SimilarPages(_, _, _)
\* the loop over query_response.points
SimilarPages(hits, rs, fault) ==
    IF hits = <<>> THEN <<>>
    ELSE LET page_data == get_by_url(rs, Head(hits).payload.url, LookupFault(fault))
         IN  (IF page_data = NoRow THEN <<>>
              ELSE <<[page |-> page_data, similarity_score |-> Head(hits).score]>>)
             \o SimilarPages(Tail(hits), rs, LaterFault(fault))

\* search_similar: a failing vector query is caught and gives []
search_similar(ps, rs, query, limit, fault) ==
    IF fault = "qd" THEN <<>>
    ELSE SimilarPages(QueryPoints(ps, Encode(query), limit), rs, fault)

\* faulty variant: the industry restricts the vector query itself
RetrieveWithinIndustry(ps, rs, query, industry, limit, fault) ==
    search_similar({ p \in ps : industry = None \/ p.payload.industry = industry },
                   rs, query, limit, fault)

\* retrieve_context: ask for max_context_items hits, then filter by industry
retrieve_context(ps, rs, query, industry, limit, fault) ==
    LET results == search_similar(ps, rs, query, limit, fault)
    IN  IF industry # None
        THEN SelectSeq(results, LAMBDA r : r.page.industry = industry)
        ELSE results

Get(obj, key, default) == IF key \in DOMAIN obj THEN obj[key] ELSE default

RECURSIVE DataLines(_, _)
\* one line per key of extracted_data outside @type, @context, @id
DataLines(obj, keys) ==
    IF keys = {} THEN <<>>
    ELSE LET k == CHOOSE x \in keys : TRUE
         IN  (IF k \in {"@type", "@context", "@id"} THEN <<>> ELSE <<obj[k]>>)
             \o DataLines(obj, keys \ {k})

\* context_item of format_context, as the sequence of its lines
ContextItem(item) ==
    <<"[Document", item.page.url, Get(item.page.metadata, "title", "N/A"),
      item.page.industry, item.page.schema_type>>
    \o (IF DOMAIN item.page.extracted_data = {} THEN <<>>
        ELSE <<"Data:">> \o DataLines(item.page.extracted_data,
                                      DOMAIN item.page.extracted_data))

RECURSIVE format_context(_)
format_context(items) ==
    IF items = <<>> THEN <<>>
    ELSE ContextItem(Head(items)) \o format_context(Tail(items))

\* occurrences of "[Document" in one line
Markers(line) == IF line \in {"[Document", MarkedTitle} THEN 1 ELSE 0

RECURSIVE CountMarkers(_)
CountMarkers(context) ==
    IF context = <<>> THEN 0
    ELSE Markers(Head(context)) + CountMarkers(Tail(context))

\* len(context.split("[Document"))
SplitCount(context) == CountMarkers(context) + 1

\* faulty variant: the handler lets the exception through
GenerationErrorRaises(prefix, query, e) ==
    [status |-> "raised", value |-> [query |-> query]]

\* except Exception as e: the result with the error string and the error field
GenerationError(prefix, query, e) ==
    [status |-> "returned",
     value |-> [answer |-> <<prefix, e>>, query |-> query, error |-> e]]

\* generate_answer once chat_completion has ended with r
generate_answer(query, context, include_sources, r) ==
    IF r.reply.status = "raised"
    THEN GenerationError("Error generating answer: ", query, r.reply.error)
    ELSE LET result == [answer |-> <<"text", r.reply.by>>, query |-> query,
                        model |-> get_provider(r.current)]
         IN  [status |-> "returned",
              value |-> IF include_sources
                        THEN [sources_count |-> SplitCount(context),
                              context_length |-> Len(context)] @@ result
                        ELSE result]

SourceOf(item) ==
    [url |-> item.page.url, title |-> Get(item.page.metadata, "title", None),
     industry |-> item.page.industry, schema_type |-> item.page.schema_type,
     similarity_score |-> item.similarity_score]

RECURSIVE Sources(_)
\* [ {...} for item in retrieved_items ]
Sources(items) ==
    IF items = <<>> THEN <<>> ELSE <<SourceOf(Head(items))>> \o Sources(Tail(items))

\* faulty variant: sources_count is left as generate_answer set it
AddSourcesKeepsCount(result, items) ==
    [status |-> result.status,
     value |-> result.value @@ [sources |-> Sources(items),
                                sources_count |-> Len(items)]]

\* Step 4 of query: result["sources"] = [...]; result["sources_count"] = len(...)
AddSources(result, items) ==
    [status |-> result.status,
     value |-> [sources |-> Sources(items),
                sources_count |-> Len(items)] @@ result.value]

NoRelevantInformation(query) ==
    [status |-> "returned",
     value |-> [answer |-> <<"No relevant information found in the crawled data.">>,
                query |-> query, sources |-> <<>>, sources_count |-> 0]]

\* faulty variant: an empty retrieval goes on to the generation step
NothingRetrievedNever(items) == FALSE

\* if not retrieved_items
NothingRetrieved(items) == items = <<>>

\* query after retrieval, once chat_completion has ended with r
QueryResult(query, items, include_sources, r) ==
    LET result == generate_answer(query, format_context(items), include_sources, r)
    IN  IF include_sources THEN AddSources(result, items) ELSE result

\* faulty variant: one item is enough to compare
TooFewToCompareOne(items) == Len(items) < 1

\* if len(retrieved_items) < 2
TooFewToCompare(items) == Len(items) < 2

NeedTwoItems(query, items) ==
    [status |-> "returned",
     value |-> [answer |-> <<"Need at least 2 items to compare. Found fewer items in database.">>,
                query |-> query, items_found |-> Len(items)]]

CompareSource(item) ==
    [url |-> item.page.url, title |-> Get(item.page.metadata, "title", None)]

RECURSIVE CompareSources(_)
\* [ {...} for item in retrieved_items[:5] ]
CompareSources(items) ==
    IF items = <<>> THEN <<>>
    ELSE <<CompareSource(Head(items))>> \o CompareSources(Tail(items))

\* faulty variant: every retrieved item is compared
AllItems(items) == items

\* retrieved_items[:5]
FirstItems(items) == SubSeq(items, 1, Min(Len(items), CompareLimit))

\* compare_products after retrieval, once chat_completion has ended with r
CompareResult(query, items, r) ==
    LET firstItems == FirstItems(items)
    IN  IF r.reply.status = "raised"
        THEN GenerationError("Error generating comparison: ", query, r.reply.error)
        ELSE [status |-> "returned",
              value |-> [answer |-> <<"text", r.reply.by>>, query |-> query,
                         items_compared |-> Len(firstItems),
                         sources |-> CompareSources(firstItems)]]

NoRagCall == [op |-> None, number |-> 0]
NoRagResult == [status |-> "none"]

RagIdle ==
    /\ max_context_items = DefaultContextItems
    /\ rag_call = NoRagCall
    /\ retrieved_items = <<>>
    /\ rag_result = NoRagResult

\* the stores as n earlier crawls left them
StoreAfterCrawls(n) ==
    /\ rows = {DocRow(d) : d \in 1..n}
    /\ points = {DocPoint(d) : d \in 1..n}
    /\ now = 0
    /\ nextUuid = n + 1
    /\ hashSeed = [p \in Procs |-> 0]
    /\ pc = [p \in Procs |-> "idle"]
    /\ call = [p \in Procs |-> NoCall]
    /\ lastOutcome = [u \in URLs |-> "never"]
    /\ savedUrls = {}
    /\ last = NoCall

RagInit ==
    /\ max_context_items \in {DefaultContextItems, MaxDocs}
    /\ rag_call = NoRagCall
    /\ retrieved_items = <<>>
    /\ rag_result = NoRagResult

RagCall(op, query, industry, include_sources, fault, calls) ==
    [op |-> op, number |-> rag_call.number + 1,
     query |-> query, industry |-> industry,
     include_sources |-> include_sources, fault |-> fault,
     generation_calls |-> calls]

\* what chat_completion did in this step
Completion == [current |-> current_provider', reply |-> reply']

\* one RAGPipeline.query call
query(q, industry, include_sources, fault, aOk, bOk) ==
    /\ rag_call.number < MaxRagCalls
    /\ retrieved_items' =
          retrieve_context(points, rows, q, industry, max_context_items, fault)
    /\ IF NothingRetrieved(retrieved_items')
       THEN /\ rag_result' = NoRelevantInformation(q)
            /\ UNCHANGED routerVars
       ELSE /\ LLMCall(aOk, bOk)
            /\ rag_result' = QueryResult(q, retrieved_items', include_sources, Completion)
    /\ rag_call' = RagCall("query", q, industry, include_sources, fault,
                           completions' - completions)
    /\ UNCHANGED max_context_items
    /\ UNCHANGED notRag

\* one RAGPipeline.compare_products call
compare_products(q, industry, fault, aOk, bOk) ==
    /\ rag_call.number < MaxRagCalls
    /\ retrieved_items' =
          retrieve_context(points, rows, q, industry, max_context_items, fault)
    /\ IF TooFewToCompare(retrieved_items')
       THEN /\ rag_result' = NeedTwoItems(q, retrieved_items')
            /\ UNCHANGED routerVars
       ELSE /\ LLMCall(aOk, bOk)
            /\ rag_result' = CompareResult(q, retrieved_items', Completion)
    /\ rag_call' = RagCall("compare", q, industry, FALSE, fault,
                           completions' - completions)
    /\ UNCHANGED max_context_items
    /\ UNCHANGED notRag

SearchFaults == {"none", "qd", "pg", "pg_once", "pg_2nd"}

\* one StorageManager.search_similar call
Search(q, limit, fault) ==
    /\ rag_call.number < MaxRagCalls
    /\ retrieved_items' = search_similar(points, rows, q, limit, fault)
    /\ rag_call' = [op |-> "search", number |-> rag_call.number + 1,
                    query |-> q, limit |-> limit, fault |-> fault]
    /\ UNCHANGED <<max_context_items, rag_result>>
    /\ UNCHANGED routerVars
    /\ UNCHANGED notRag

NextSearch ==
    \E q \in Queries, limit \in 1..MaxDocs, fault \in SearchFaults : Search(q, limit, fault)

NextRag ==
    \/ \E q \in Queries, industry \in IndustryFilters, include_sources \in BOOLEAN,
          fault \in ReadFaults, aOk \in BOOLEAN, bOk \in BOOLEAN :
            query(q, industry, include_sources, fault, aOk, bOk)
    \/ \E q \in Queries, industry \in IndustryFilters,
          fault \in ReadFaults, aOk \in BOOLEAN, bOk \in BOOLEAN :
            compare_products(q, industry, fault, aOk, bOk)

(***************************************************************************)
(* SchemaMapper.classify_industry (schema_mapper.py).  The cosine          *)
(* similarity of the content to each industry's keyword text is an input.  *)
(***************************************************************************)
\* industry_keywords, in the order the dict declares them
Industries == <<"banking", "ecommerce", "insurance">>

Similarities == [{Industries[i] : i \in 1..Len(Industries)} -> (0 - MaxSim)..MaxSim]

\* faulty variant: a similarity equal to the maximum also replaces it
BeatsOrEqual(s, max_similarity) == s >= max_similarity

\* if similarity > max_similarity
Beats(s, max_similarity) == s > max_similarity

RECURSIVE ClassifyLoop(_, _, _, _)
\* for industry, keywords in industry_keywords.items()
ClassifyLoop(industries, sims, best, max_similarity) ==
    IF industries = <<>> THEN best
    ELSE LET industry == Head(industries)
         IN  IF Beats(sims[industry], max_similarity)
             THEN ClassifyLoop(Tail(industries), sims, industry, sims[industry])
             ELSE ClassifyLoop(Tail(industries), sims, best, max_similarity)

\* best_match = "general"; max_similarity = 0; the loop; return best_match
classify_industry(sims) == ClassifyLoop(Industries, sims, "general", 0)

NoSimilarity == <<>>

ClassifyIdle ==
    /\ similarity = NoSimilarity
    /\ best_match = None

\* one classify_industry call on content whose similarities are sims
Classify(sims) ==
    /\ similarity' = sims
    /\ best_match' = classify_industry(sims)
    /\ UNCHANGED notClassify

NextClassify == \E sims \in Similarities : Classify(sims)

(***************************************************************************)
(* The ingest request crawl_url (main.py; crawl_and_extract of             *)
(* streamlit_app.py runs the same stages): lookup, fetch, classify,        *)
(* detect, extract, normalize, save.  One request at a time.               *)
(***************************************************************************)
\* SCHEMA_TYPES
SCHEMA_TYPES ==
    [banking |-> <<"Product", "FinancialProduct", "Service", "Offer">>,
     ecommerce |-> <<"Product", "Offer", "Review", "AggregateRating">>,
     insurance |-> <<"Service", "Product", "Offer", "InsuranceAgency">>,
     general |-> <<"Product", "Service", "Organization", "WebPage">>]

RECURSIVE DetectLoop(_, _, _, _)
\* for schema_type in candidate_types
DetectLoop(candidates, sims, best, max_similarity) ==
    IF candidates = <<>> THEN best
    ELSE LET t == Head(candidates)
         IN  IF t \in DOMAIN sims /\ sims[t] > max_similarity
             THEN DetectLoop(Tail(candidates), sims, t, sims[t])
             ELSE DetectLoop(Tail(candidates), sims, best, max_similarity)

\* self.SCHEMA_TYPES.get(industry, self.SCHEMA_TYPES["general"])
candidate_types(industry) ==
    IF industry \in DOMAIN SCHEMA_TYPES THEN SCHEMA_TYPES[industry]
    ELSE SCHEMA_TYPES["general"]

\* faulty variant: the default is the first candidate of the industry's list
DetectFromFirstCandidate(sims, industry) ==
    DetectLoop(candidate_types(industry), sims, Head(candidate_types(industry)), 0)

\* detect_schema_type: best_type = "Product"; max_similarity = 0; the loop
detect_schema_type(sims, industry) ==
    DetectLoop(candidate_types(industry), sims, "Product", 0)

\* the industries detect_schema_type is called with: what classify_industry
\* returns, and one industry without a registered list
DetectIndustries == {"banking", "ecommerce", "insurance", "general", "travel"}

TypesOf(industry) ==
    { candidate_types(industry)[i] : i \in 1..Len(candidate_types(industry)) }

\* the arguments of one detect_schema_type call: the industry, and the
\* similarity of the content to each candidate type
DetectArguments ==
    \E industry \in DetectIndustries :
      \E sims \in [TypesOf(industry) -> (0 - MaxSim)..MaxSim] :
        /\ best_match = industry
        /\ similarity = sims

\* the detect_schema_type call on those arguments
Detect ==
    /\ schema_type = None
    /\ schema_type' = detect_schema_type(similarity, best_match)
    /\ UNCHANGED <<similarity, best_match, result_text, extracted_data>>
    /\ UNCHANGED <<storeVars, routerVars, ragVars, ingestVars>>

NextDetect == Detect

\* what the site serves for url u, with the similarities of its text
SitePage(u) ==
    IF u = "u1"
    THEN [text |-> <<"c", "r", "e">>,
          metadata |-> ("title" :> "Card A" @@ "description" :> "a card"),
          similarity |-> ("banking" :> 2 @@ "ecommerce" :> 1 @@ "insurance" :> 0),
          type_similarity |-> ("Product" :> 1 @@ "FinancialProduct" :> 2
                               @@ "Service" :> 0 @@ "Offer" :> 0)]
    ELSE [text |-> <<"c", "r", "x">>,
          metadata |-> ("title" :> "Shop B"),
          similarity |-> ("banking" :> 0 @@ "ecommerce" :> 0 @@ "insurance" :> 0 - 1),
          type_similarity |-> ("Product" :> 0 @@ "Service" :> 0
                               @@ "Organization" :> 0 @@ "WebPage" :> 0)]

\* crawler.crawl: the page, or a result with success False
crawl(u, fetchOk) ==
    IF fetchOk THEN [success |-> TRUE, url |-> u, page |-> SitePage(u)]
    ELSE [success |-> FALSE, url |-> u, error |-> "Unknown error"]

ReservedKeys == {"@type", "@context", "@id"}

\* normalize_to_jsonld
normalize_to_jsonld(data, u) ==
    ("@context" :> SchemaContext @@ "@type" :> Get(data, "@type", "Product") @@ "@id" :> u)
    @@ [k \in DOMAIN data \ ReservedKeys |-> data[k]]

\* the keyword arguments of the save_crawled_data call
SaveArgs(page, industry, st, extracted) ==
    [title |-> Get(page.metadata, "title", ""),
     description |-> Get(page.metadata, "description", ""),
     industry |-> industry, schema_type |-> st,
     extracted_data |-> extracted, metadata |-> page.metadata,
     text_content |-> page.text]

\* save_crawled_data run to its end: both stores and the value returned
SaveOutcome(rs, ps, seed, pid, u, a, t, fault) ==
    IF fault = "pg"
    THEN [rows |-> PgRollback(rs, pid, u, a, t), points |-> ps,
          result |-> PgErrorResult(pid), outcome |-> "pg_failed"]
    ELSE IF fault = "qd"
    THEN [rows |-> PgUpsert(rs, pid, u, a, t), points |-> ps,
          result |-> QdErrorResult(pid), outcome |-> "qd_failed"]
    ELSE [rows |-> PgUpsert(rs, pid, u, a, t),
          points |-> QdUpsert(ps, MakePoint(seed, pid, u, a)),
          result |-> SaveResult(pid), outcome |-> "both"]

\* if not request.force_refresh: existing = ...; if existing:
UseExisting(force_refresh, existing) == ~force_refresh /\ existing # NoRow

\* the response built from the stored row
CachedResponse(u, existing) ==
    [status |-> "returned", success |-> TRUE, url |-> u,
     page_id |-> existing.id, industry |-> existing.industry,
     schema_type |-> existing.schema_type,
     extracted_data |-> existing.extracted_data,
     jsonld |-> existing.extracted_data]

\* faulty variant: the failed fetch is answered as a success
FetchFailureHidden(result) ==
    [status |-> "returned", success |-> TRUE, status_code |-> 200, detail |-> result.error]

\* raise HTTPException(status_code=400, ...)
FetchFailure(result) ==
    [status |-> "raised", success |-> FALSE, status_code |-> 400, detail |-> result.error]

\* the response after a save
CrawlResponse(u, page_id, industry, st, extracted, jsonld) ==
    [status |-> "returned", success |-> TRUE, url |-> u,
     page_id |-> page_id, industry |-> industry, schema_type |-> st,
     extracted_data |-> extracted, jsonld |-> jsonld]

NoRequest == [url |-> None, number |-> 0]
NoResponse == [status |-> "none"]

IngestIdle ==
    /\ crawl_request = NoRequest
    /\ steps = <<>>
    /\ crawl_response = NoResponse

CrawlRequest(u, force_refresh, lookupFault, fetchOk, saveFault) ==
    [url |-> u, number |-> crawl_request.number + 1,
     force_refresh |-> force_refresh, lookup_fault |-> lookupFault,
     fetch_ok |-> fetchOk, save_fault |-> saveFault]

\* the stages from classification to the response
Pipeline(u, page, text, aOk, bOk, saveFault) ==
    /\ similarity' = page.similarity
    /\ best_match' = classify_industry(page.similarity)
    /\ schema_type' = detect_schema_type(page.type_similarity, best_match')
    /\ LLMCall(aOk, bOk)
    /\ result_text' = IF reply'.status = "text" THEN text ELSE <<>>
    /\ extracted_data' = ExtractResult(schema_type', reply', text)
    /\ \E t \in now .. Min(now + 1, MaxClock) :
          LET a == SaveArgs(page, best_match', schema_type', extracted_data'.value)
              saved == SaveOutcome(rows, points, hashSeed["p1"], Uuid(nextUuid),
                                   u, a, t, saveFault)
          IN  /\ rows' = saved.rows
              /\ points' = saved.points
              /\ now' = IF saveFault = "pg" THEN now ELSE t
              /\ savedUrls' = IF saveFault = "pg" THEN savedUrls ELSE savedUrls \cup {u}
              /\ lastOutcome' = [lastOutcome EXCEPT ![u] = saved.outcome]
              /\ last' = [url |-> u, args |-> a, result |-> saved.result,
                          outcome |-> saved.outcome,
                          row |-> IF HasRow(rows', u) THEN RowOf(rows', u) ELSE NoRow]
              /\ crawl_response' =
                    CrawlResponse(u, saved.result.page_id, best_match', schema_type',
                                  extracted_data'.value,
                                  normalize_to_jsonld(extracted_data'.value, u))
    /\ nextUuid' = nextUuid + 1
    /\ UNCHANGED <<hashSeed, pc, call>>

\* one POST /crawl request
crawl_url(u, force_refresh, lookupFault, fetchOk, text, aOk, bOk, saveFault) ==
    LET existing == IF force_refresh THEN NoRow
                    ELSE get_by_url(rows, u, IF lookupFault THEN "pg" ELSE "none")
        looked == IF force_refresh THEN <<>> ELSE <<"lookup">>
        crawl_result == crawl(u, fetchOk)
    IN  /\ crawl_request.number < MaxIngests
        /\ crawl_request' = CrawlRequest(u, force_refresh, lookupFault, fetchOk, saveFault)
        /\ IF UseExisting(force_refresh, existing)
           THEN /\ steps' = looked
                /\ crawl_response' = CachedResponse(u, existing)
                /\ UNCHANGED <<storeVars, routerVars, extractVars, classifyVars>>
           ELSE IF ~crawl_result.success
           THEN /\ steps' = looked \o <<"fetch">>
                /\ crawl_response' = FetchFailure(crawl_result)
                /\ UNCHANGED <<storeVars, routerVars, extractVars, classifyVars>>
           ELSE /\ steps' = looked \o <<"fetch", "classify", "detect", "extract",
                                        "normalize", "save">>
                /\ Pipeline(u, crawl_result.page, text, aOk, bOk, saveFault)
        /\ UNCHANGED notIngest

IngestReplies == {<<JsonObject>>, <<Prose>>}

NextIngest ==
    \E u \in URLs, force_refresh \in BOOLEAN, fetchOk \in BOOLEAN,
       text \in IngestReplies,
       aOk \in BOOLEAN, bOk \in BOOLEAN, saveFault \in Faults :
      \E lookupFault \in (IF force_refresh THEN {FALSE} ELSE BOOLEAN) :
        crawl_url(u, force_refresh, lookupFault, fetchOk, text, aOk, bOk, saveFault)

\* the row and the point an earlier, fully successful crawl of u left
StoredArgs(u) ==
    LET page == SitePage(u)
        industry == classify_industry(page.similarity)
        st == detect_schema_type(page.type_similarity, industry)
    IN  SaveArgs(page, industry, st, AddSchemaContext(JsonObject.obj, st))

UuidOf(u) == IF u = "u1" THEN 1 ELSE 2

\* the stores after earlier crawls of the URLs in S
StoreAfterIngests(S) ==
    /\ rows = {NewRow(Uuid(UuidOf(u)), u, StoredArgs(u), 0) : u \in S}
    /\ points = {MakePoint(1, Uuid(UuidOf(u)), u, StoredArgs(u)) : u \in S}
    /\ now = 0
    /\ nextUuid = 3
    /\ hashSeed = [p \in Procs |-> 1]
    /\ pc = [p \in Procs |-> "idle"]
    /\ call = [p \in Procs |-> NoCall]
    /\ lastOutcome = [u \in URLs |-> IF u \in S THEN "both" ELSE "never"]
    /\ savedUrls = S
    /\ last = NoCall

(***************************************************************************)
(* Specifications.                                                         *)
(***************************************************************************)
RouterIdle ==
    /\ openai_client = FALSE
    /\ groq_client = FALSE
    /\ provider = "auto"
    /\ current_provider = None
    /\ reply = NoReply
    /\ attempts = <<>>
    /\ aAlwaysFails = TRUE
    /\ bAlwaysOk = TRUE
    /\ completions = 0
    /\ fellBack = FALSE

Init == StoreInit /\ RouterIdle /\ ExtractIdle /\ RagIdle /\ ClassifyIdle /\ IngestIdle

Spec == Init /\ [][Next]_vars

StoreIdle == StoreInit /\ hashSeed = [p \in Procs |-> 0]

InitRouter == StoreIdle /\ RouterInit /\ ExtractIdle /\ RagIdle /\ ClassifyIdle /\ IngestIdle

SpecRouter == InitRouter /\ [][NextRouter]_vars

SpecConcurrent == Init /\ [][NextConcurrent]_vars

InitExtract == StoreIdle /\ RouterInit /\ ExtractIdle /\ RagIdle /\ ClassifyIdle /\ IngestIdle

SpecExtract == InitExtract /\ [][NextExtract]_vars

InitRag ==
    /\ \E n \in 0..MaxDocs : StoreAfterCrawls(n)
    /\ RouterInit /\ provider = "auto"
    /\ ExtractIdle /\ RagInit /\ ClassifyIdle /\ IngestIdle

SpecRag == InitRag /\ [][NextRag]_vars

\* the three operations that call the generation backend, in any order
NextOperations ==
    \/ \E st \in RecordTypes, text \in IngestReplies, aOk \in BOOLEAN, bOk \in BOOLEAN :
          extract_with_llm(st, text, aOk, bOk)
    \/ \E q \in Queries, industry \in IndustryFilters, aOk \in BOOLEAN, bOk \in BOOLEAN :
          query(q, industry, TRUE, "none", aOk, bOk)
    \/ \E q \in Queries, industry \in IndustryFilters, aOk \in BOOLEAN, bOk \in BOOLEAN :
          compare_products(q, industry, "none", aOk, bOk)

\* the stores hold no page, one page or two: a query with nothing and with
\* something to retrieve, a comparison with too few items and with enough
InitOperations ==
    /\ \E n \in 0..2 : StoreAfterCrawls(n)
    /\ RouterInit /\ provider = "auto"
    /\ ExtractIdle /\ RagIdle /\ ClassifyIdle /\ IngestIdle

SpecOperations == InitOperations /\ [][NextOperations]_vars

InitSearch ==
    /\ \E n \in 0..MaxDocs : StoreAfterCrawls(n)
    /\ RouterIdle /\ ExtractIdle /\ RagIdle /\ ClassifyIdle /\ IngestIdle

SpecSearch == InitSearch /\ [][NextSearch]_vars

InitClassify == StoreIdle /\ RouterIdle /\ ExtractIdle /\ RagIdle /\ ClassifyIdle /\ IngestIdle

SpecClassify == InitClassify /\ [][NextClassify]_vars

InitDetect ==
    /\ StoreIdle /\ RouterIdle /\ ExtractIdle /\ RagIdle /\ IngestIdle
    /\ DetectArguments

SpecDetect == InitDetect /\ [][NextDetect]_vars

InitIngest ==
    /\ \E S \in SUBSET URLs : StoreAfterIngests(S)
    /\ RouterInit /\ provider = "auto"
    /\ ExtractIdle /\ RagIdle /\ ClassifyIdle /\ IngestIdle

SpecIngest == InitIngest /\ [][NextIngest]_vars

(***************************************************************************)
(* Properties of the LLMClient (checked under SpecRouter).                 *)
(***************************************************************************)
\* C9: with both clients configured, OpenAI failing in every call and Groq
\* answering in every call, each call returns Groq's text and get_provider()
\* reports groq after it.
C9_FallbackServes ==
    (openai_client /\ groq_client /\ aAlwaysFails /\ bAlwaysOk /\ completions > 0)
    => /\ reply.status = "text"
       /\ reply.by = "groq"
       /\ get_provider(current_provider) = "groq"

C9_Witness ==
    /\ openai_client /\ groq_client /\ provider = "auto"
    /\ aAlwaysFails /\ bAlwaysOk
    /\ completions = 2
    /\ attempts = <<"openai", "groq">>
    /\ reply.by = "groq"

\* C10: after every call that returned text, get_provider() names the backend
\* that produced that text.
C10_ProviderIsServer ==
    reply.status = "text" => get_provider(current_provider) = reply.by

\* C11: in auto mode with both clients, once a call has failed on OpenAI and
\* fallen back to Groq, every later call goes to Groq alone.
C11_StaysOnGroq ==
    [][(provider = "auto" /\ openai_client /\ groq_client /\ fellBack
        /\ completions' = completions + 1)
       => attempts' = <<"groq">>]_vars

\* C12: with neither client configured every call raises "No LLM provider
\* available", invokes no backend, and get_provider() reports none, under
\* each of the three preferences.
C12_NoProvider ==
    (~openai_client /\ ~groq_client)
    => /\ get_provider(current_provider) = "none"
       /\ completions > 0 =>
             /\ reply.status = "raised"
             /\ reply.error = "No LLM provider available"
             /\ attempts = <<>>

C12_Witness ==
    /\ ~openai_client /\ ~groq_client
    /\ provider = "openai"
    /\ completions = 2
    /\ reply.status = "raised"

\* C13: with exactly one client configured, every call is routed to that
\* backend and to no other, under each of the three preferences.
C13_RoutesToConfigured ==
    (openai_client # groq_client /\ completions > 0)
    => attempts = <<IF openai_client THEN "openai" ELSE "groq">>

(***************************************************************************)
(* Properties of extract_with_llm (checked under SpecExtract).             *)
(***************************************************************************)
\* the pieces of the backend's text that are neither fence nor whitespace
Substance(text) == SelectSeq(text, LAMBDA x : x.kind \notin {"fence_json", "fence", "space"})

\* the backend answered and its text, fences aside, is one JSON object
UsableReply ==
    /\ reply.status = "text"
    /\ Len(Substance(result_text)) = 1
    /\ Substance(result_text)[1].kind = "object"

\* C14: every extract_with_llm call returns a mapping and raises nothing,
\* whatever the backend did; the mapping's @type is the requested type and
\* its @context the Schema.org tag, whatever the backend wrote for them, and
\* it has an error key whenever the backend failed or its text was not one
\* JSON object.
C14_ExtractAlwaysReturns ==
    schema_type # None
    => /\ extracted_data.status = "returned"
       /\ "@type" \in DOMAIN extracted_data.value
       /\ extracted_data.value["@type"] = schema_type
       /\ "@context" \in DOMAIN extracted_data.value
       /\ extracted_data.value["@context"] = SchemaContext
       /\ ~UsableReply => "error" \in DOMAIN extracted_data.value

C14_Witness ==
    /\ schema_type = "FinancialProduct"
    /\ reply.status = "text"
    /\ Len(result_text) = 5
    /\ result_text[1].kind = "fence_json"
    /\ result_text[3].kind = "object"
    /\ "@type" \in DOMAIN result_text[3].obj
    /\ result_text[3].obj["@type"] # schema_type
    /\ extracted_data.status = "returned"
    /\ extracted_data.value["name"] = "Card"

(***************************************************************************)
(* Properties of the RAGPipeline (checked under SpecRag).                  *)
(***************************************************************************)
\* C15: a query whose retrieval gave no page (empty stores, or every hit
\* removed by the industry filter) returns the fixed "no relevant
\* information" answer with no sources and sources_count 0, and calls no
\* generation backend.
C15_EmptyRetrievalShortCircuits ==
    (rag_call.op = "query" /\ retrieved_items = <<>>)
    => /\ rag_result.status = "returned"
       /\ rag_result.value.answer = <<"No relevant information found in the crawled data.">>
       /\ rag_result.value.sources = <<>>
       /\ rag_result.value.sources_count = 0
       /\ rag_call.generation_calls = 0

C15_Witness ==
    /\ rag_call.op = "query"
    /\ rag_call.fault = "none"
    /\ rag_call.industry = "insurance"
    /\ Cardinality(points) >= 2
    /\ openai_client
    /\ retrieved_items = <<>>
    /\ rag_result.value.sources_count = 0

\* C16: compare_products with 0 or 1 retrieved page returns the "need at
\* least 2 items" result with items_found the number retrieved and calls no
\* generation backend; with 2 or more retrieved pages it makes a generation
\* call.
C16_CompareThreshold ==
    rag_call.op = "compare"
    => IF Len(retrieved_items) < 2
       THEN /\ rag_result.status = "returned"
            /\ rag_result.value.answer[1] = "Need at least 2 items to compare. Found fewer items in database."
            /\ rag_result.value.items_found = Len(retrieved_items)
            /\ rag_call.generation_calls = 0
       ELSE rag_call.generation_calls = 1

C16_Witness ==
    /\ rag_call.op = "compare"
    /\ Len(retrieved_items) = 1
    /\ rag_result.value.items_found = 1
    /\ groq_client
    /\ rag_call.generation_calls = 0

\* C17: a query that retrieved at least one page, with include_sources set,
\* returns one source descriptor per retrieved page in retrieval order and
\* sources_count equal to the number of pages retrieved, whether generation
\* succeeded or failed and whatever the pages' text contains.
C17_SourcesMatchRetrieved ==
    (rag_call.op = "query" /\ Len(retrieved_items) >= 1 /\ rag_call.include_sources)
    => /\ rag_result.status = "returned"
       /\ Len(rag_result.value.sources) = Len(retrieved_items)
       /\ \A i \in 1..Len(retrieved_items) :
             /\ rag_result.value.sources[i].url = retrieved_items[i].page.url
             /\ rag_result.value.sources[i].industry = retrieved_items[i].page.industry
             /\ rag_result.value.sources[i].schema_type = retrieved_items[i].page.schema_type
             /\ rag_result.value.sources[i].similarity_score = retrieved_items[i].similarity_score
       /\ rag_result.value.sources_count = Len(retrieved_items)

C17_Witness ==
    /\ rag_call.op = "query"
    /\ rag_call.include_sources
    /\ Len(retrieved_items) = 3
    /\ \E i \in 1..3 : retrieved_items[i].page.title = MarkedTitle
    /\ reply.status = "text"
    /\ rag_call.generation_calls = 1
    /\ rag_result.value.sources_count = 3
    /\ rag_result.value.sources[1].url = "d3"

\* C18: when the generation call of a query or a compare_products fails
\* (both backends fail, or no provider is available) the operation raises
\* nothing: it returns a result whose answer is an error string and which
\* has an error field.
C18_GenerationFailureReturned ==
    (rag_call.op \in {"query", "compare"} /\ rag_call.generation_calls = 1
     /\ reply.status = "raised")
    => /\ rag_result.status = "returned"
       /\ "error" \in DOMAIN rag_result.value
       /\ rag_result.value.error = reply.error
       /\ "answer" \in DOMAIN rag_result.value
       /\ rag_result.value.answer[1] \in {"Error generating answer: ",
                                          "Error generating comparison: "}
       /\ rag_result.value.answer[2] = reply.error

C18_Witness ==
    /\ rag_call.op = "compare"
    /\ rag_call.generation_calls = 1
    /\ ~openai_client /\ ~groq_client
    /\ reply.error = "No LLM provider available"
    /\ "error" \in DOMAIN rag_result.value

(***************************************************************************)
(* Properties of classify_industry (checked under SpecClassify).           *)
(***************************************************************************)
\* the position of an industry in the declaration order
Rank(industry) == CHOOSE i \in 1..Len(Industries) : Industries[i] = industry

\* C19: classify_industry returns general when no industry's similarity is
\* strictly greater than 0 (all of them zero included); otherwise it returns
\* the industry of highest similarity and, among industries tied for the
\* highest, the one declared first.
C19_ClassifyDefaultAndTies ==
    similarity # NoSimilarity
    => IF \A i \in DOMAIN similarity : similarity[i] <= 0
       THEN best_match = "general"
       ELSE /\ best_match \in DOMAIN similarity
            /\ \A i \in DOMAIN similarity :
                  \/ similarity[i] < similarity[best_match]
                  \/ /\ similarity[i] = similarity[best_match]
                     /\ Rank(best_match) <= Rank(i)

C19_Witness ==
    /\ similarity # NoSimilarity
    /\ similarity["banking"] = 1
    /\ similarity["ecommerce"] = 2
    /\ similarity["insurance"] = 2
    /\ best_match = "ecommerce"

(***************************************************************************)
(* Properties of crawl_url (checked under SpecIngest).                     *)
(***************************************************************************)
\* C20: a request with force_refresh false for a URL that has a row in
\* crawled_pages fetches, classifies, extracts (no chat_completion call) and
\* saves nothing, answers with the stored row's id, industry, schema_type and
\* extracted_data, and leaves both stores as they were.
C20_CachedShortCircuit ==
    [][(crawl_request'.number = crawl_request.number + 1
        /\ ~crawl_request'.force_refresh
        /\ HasRow(rows, crawl_request'.url))
       => /\ steps' = <<"lookup">>
          /\ completions' = completions
          /\ rows' = rows
          /\ points' = points
          /\ crawl_response'.status = "returned"
          /\ crawl_response'.page_id = RowOf(rows, crawl_request'.url).id
          /\ crawl_response'.industry = RowOf(rows, crawl_request'.url).industry
          /\ crawl_response'.schema_type = RowOf(rows, crawl_request'.url).schema_type
          /\ crawl_response'.extracted_data = RowOf(rows, crawl_request'.url).extracted_data]_vars

\* C21: when the fetch of a request fails, the request ends with the failure
\* reported to the caller and stops there: nothing is classified, no
\* chat_completion call is made, nothing is saved, both stores stay as they
\* were.
C21_FetchFailureAborts ==
    [][(crawl_request'.number = crawl_request.number + 1
        /\ steps' # <<>> /\ steps'[Len(steps')] # "lookup"
        /\ ~crawl_request'.fetch_ok)
       => /\ steps'[Len(steps')] = "fetch"
          /\ crawl_response'.success = FALSE
          /\ crawl_response'.detail = "Unknown error"
          /\ UNCHANGED <<similarity, best_match>>
          /\ completions' = completions
          /\ UNCHANGED extractVars
          /\ rows' = rows
          /\ points' = points
          /\ nextUuid' = nextUuid]_vars

C21_Witness ==
    /\ crawl_request.number = 1
    /\ crawl_request.force_refresh
    /\ ~crawl_request.fetch_ok
    /\ steps = <<"fetch">>
    /\ crawl_response.status = "raised"
    /\ rows # {}
    /\ openai_client

(***************************************************************************)
(* Properties of overlapping saves (checked under SpecConcurrent).         *)
(***************************************************************************)
\* some process is leaving the Qdrant block with its upsert done
QdCommitted(p) == pc[p] = "qd" /\ pc'[p] = "idle" /\ call[p].fault = "none"

\* C22: with save calls overlapping, every canonical write leaves exactly one
\* Page for its URL, carrying the writer's fields, and every vector write
\* leaves exactly one VectorEntry for its URL, carrying the writer's content;
\* so after any interleaving the Page is that of the last canonical write and
\* the single VectorEntry that of the last vector write.
C22_LastWriterWins ==
    [][\A p \in Procs :
          /\ PgCommitted(p)
             => /\ Cardinality(RowsFor(rows', call[p].url)) = 1
                /\ \A r \in RowsFor(rows', call[p].url) :
                      /\ r.title = call[p].args.title
                      /\ r.industry = call[p].args.industry
                      /\ r.schema_type = call[p].args.schema_type
                      /\ r.extracted_data = call[p].args.extracted_data
                      /\ r.metadata = call[p].args.metadata
          /\ QdCommitted(p)
             => /\ Cardinality(PointsFor(points', call[p].url)) = 1
                /\ \A q \in PointsFor(points', call[p].url) :
                      /\ q.payload.title = call[p].args.title
                      /\ q.payload.industry = call[p].args.industry
                      /\ q.payload.schema_type = call[p].args.schema_type
                      /\ q.vector = Embedding(call[p].args.text_content)]_vars

\* C30: once two overlapping saves of one URL have both finished, all their
\* writes done, the URL's VectorEntry carries in its payload the title,
\* industry and schema_type of the URL's Page.
C30_StoresAgree ==
    \A u \in URLs :
        (/\ \A p \in Procs : pc[p] = "idle"
         /\ nextUuid = 3
         /\ savedUrls = {u}
         /\ Cardinality(PointsFor(points, u)) = 1)
        => \A q \in PointsFor(points, u) :
              /\ HasRow(rows, u)
              /\ q.payload.title = RowOf(rows, u).title
              /\ q.payload.industry = RowOf(rows, u).industry
              /\ q.payload.schema_type = RowOf(rows, u).schema_type

\* C25: a successful vector write for one URL leaves every VectorEntry of
\* every other URL in the index, because the keys hash(url) % 2**63 of two
\* different URLs differ.
C25_NoCrossUrlOverwrite ==
    [][\A p \in Procs :
          QdCommitted(p)
          => \A q \in points : q.payload.url # call[p].url => q \in points']_vars

\* C29: an ingest answered as a success carries the id of a canonical Page
\* that exists in the store; a request whose canonical write failed is not
\* answered as a success.
C29_SuccessMeansStored ==
    (crawl_response.status = "returned" /\ crawl_response.success)
    => /\ crawl_response.page_id # None
       /\ \E r \in rows : r.url = crawl_request.url /\ r.id = crawl_response.page_id

\* position of the first candidate whose similarity is the highest
FirstHighest(cands, sims) ==
    CHOOSE i \in 1..Len(cands) :
        /\ \A j \in 1..Len(cands) : sims[cands[j]] <= sims[cands[i]]
        /\ \A j \in 1..(i - 1) : sims[cands[j]] < sims[cands[i]]

\* C27 (as the code has it): detect_schema_type takes its candidates from the
\* industry's list, the general list for an industry without one, and
\* returns the first candidate of highest similarity when that similarity is
\* above 0; otherwise it returns Product, whatever the list starts with.
C27_DetectDefaultProduct ==
    schema_type # None
    => LET cands == candidate_types(best_match)
           top == cands[FirstHighest(cands, similarity)]
       IN  /\ cands = (IF best_match \in {"banking", "ecommerce", "insurance"}
                       THEN SCHEMA_TYPES[best_match] ELSE SCHEMA_TYPES["general"])
           /\ schema_type = (IF similarity[top] > 0 THEN top ELSE "Product")

C27_Witness ==
    /\ best_match = "insurance"
    /\ \A t \in DOMAIN similarity : similarity[t] <= 0
    /\ schema_type = "Product"

\* C27: detect_schema_type returns the candidate of highest similarity, and
\* when no candidate's similarity beats the running maximum it returns the
\* first type of the industry's candidate list.
C27_DetectDefaultFirst ==
    schema_type # None
    => LET cands == candidate_types(best_match)
           top == cands[FirstHighest(cands, similarity)]
       IN  schema_type = (IF similarity[top] > 0 THEN top ELSE cands[1])

\* C28: a compare_products call that retrieved n >= 2 pages and got its
\* comparison written reports items_compared = min(n, 5), and its sources are
\* the first min(n, 5) retrieved pages, in retrieval order.
C28_CompareFirstFive ==
    (/\ rag_call.op = "compare"
     /\ Len(retrieved_items) >= 2
     /\ rag_result.status = "returned"
     /\ "error" \notin DOMAIN rag_result.value)
    => LET n == Len(retrieved_items)
           k == IF n <= 5 THEN n ELSE 5
       IN  /\ rag_result.value.items_compared = k
           /\ Len(rag_result.value.sources) = k
           /\ \A i \in 1..k :
                 /\ rag_result.value.sources[i].url = retrieved_items[i].page.url
                 /\ rag_result.value.sources[i].title
                      = Get(retrieved_items[i].page.metadata, "title", None)

C28_Witness ==
    /\ rag_call.op = "compare"
    /\ Len(retrieved_items) = 6
    /\ rag_result.status = "returned"
    /\ "error" \notin DOMAIN rag_result.value
    /\ rag_result.value.items_compared = 5
    /\ Len(rag_result.value.sources) = 5

\* C26: what retrieve_context returns is, in retrieval order, those of the
\* max_context_items pages search_similar finds whose industry is the one
\* asked for (all of them when no industry is given); pages of that industry
\* outside those hits are not returned.
C26_FilterAfterRetrieval ==
    rag_call.number > 0
    => LET hits == search_similar(points, rows, rag_call.query, max_context_items,
                                  rag_call.fault)
       IN  /\ Len(hits) <= max_context_items
           /\ Len(retrieved_items) <= Len(hits)
           /\ rag_call.industry = None => retrieved_items = hits
           /\ rag_call.industry # None
              => /\ \A i \in 1..Len(retrieved_items) :
                       retrieved_items[i].page.industry = rag_call.industry
                 /\ retrieved_items
                      = SelectSeq(hits, LAMBDA r : r.page.industry = rag_call.industry)

C26_Witness ==
    /\ rag_call.number > 0
    /\ rag_call.industry = "insurance"
    /\ rag_call.fault = "none"
    /\ max_context_items = DefaultContextItems
    /\ \E r \in rows : r.industry = "insurance"
    /\ retrieved_items = <<>>

\* whether the page of the i-th hit reaches search_similar under the fault
PageFound(hits, i, fault) ==
    /\ HasRow(rows, hits[i].payload.url)
    /\ fault # "pg"
    /\ ~(fault = "pg_once" /\ i = 1)
    /\ ~(fault = "pg_2nd" /\ i = 2)

\* C24: search_similar returns at most limit pages; they are the pages of the
\* hits of the vector query, each with the score of its hit, in the order of
\* the hits; a hit whose page is not found is left out and the others stay;
\* a failing vector query gives the empty list.
C24_SearchKeepsOrderDropsStale ==
    rag_call.op = "search"
    => LET hits == QueryPoints(points, Encode(rag_call.query), rag_call.limit)
           kept == SelectSeq([i \in 1..Len(hits) |-> i],
                             LAMBDA i : PageFound(hits, i, rag_call.fault))
       IN  /\ Len(retrieved_items) <= rag_call.limit
           /\ rag_call.fault = "qd" => retrieved_items = <<>>
           /\ rag_call.fault # "qd"
              => /\ Len(retrieved_items) = Len(kept)
                 /\ \A k \in 1..Len(kept) :
                       /\ retrieved_items[k].page = RowOf(rows, hits[kept[k]].payload.url)
                       /\ retrieved_items[k].similarity_score = hits[kept[k]].score

C24_Witness ==
    /\ rag_call.op = "search"
    /\ rag_call.fault = "pg_2nd"
    /\ rag_call.limit = 4
    /\ Cardinality(points) > 4
    /\ Len(retrieved_items) = 3
    /\ retrieved_items[1].similarity_score > retrieved_items[2].similarity_score
    /\ retrieved_items[2].similarity_score > retrieved_items[3].similarity_score

\* C23: nothing is retried.  One chat_completion call invokes OpenAI at most
\* once and Groq at most once, Groq after OpenAI only when OpenAI did not
\* answer; one extract_with_llm, one query and one compare_products each
\* make at most one chat_completion call.
C23_NoRetries ==
    [][/\ completions' <= completions + 1
       /\ completions' = completions + 1
          => /\ attempts' \in {<<>>, <<"openai">>, <<"groq">>, <<"openai", "groq">>}
             /\ attempts' = <<"openai", "groq">> => reply'.by # "openai"
       /\ rag_call'.number = rag_call.number + 1
          => rag_call'.generation_calls = completions' - completions
       /\ extracted_data' # extracted_data => completions' = completions + 1]_vars

C23_Witness ==
    /\ completions = 2
    /\ attempts = <<"openai", "groq">>
    /\ reply.by = "groq"
    /\ rag_call.op = "compare"
    /\ rag_call.generation_calls = 1
    /\ extracted_data.status # "none"

====
